---- MODULE Spec2Model ----
(***************************************************************************)
(* A model of the dailyschedule crate (src/src/lib.rs): Moment, Filter,    *)
(* LocalTimeState, DailyEvent, Event, Handler and Schedule.                *)
(*                                                                         *)
(* Time is counted in ticks.  A Timespec (sec, nsec) is the integer        *)
(* sec * NsecPerSec + nsec, a Duration likewise; the scale is compressed   *)
(* (NsecPerSec ticks make one second, SecPerDay seconds make one day) so   *)
(* that whole days, whole seconds and sub-second values all occur.         *)
(***************************************************************************)
EXTENDS Integers, Sequences, FiniteSets, TLC

\* ------------------------------------------------------------------ bounds
NsecPerSec == 2
SecPerDay == 12
MaxEvents == 2
MaxUpdates == 2
MaxOccs == 4

Seconds(s) == s * NsecPerSec
Day == Seconds(SecPerDay)
Days(d) == d * Day

\* ------------------------------------------------------- integer helpers
\* Rust's i64 division truncates toward zero
TruncDiv(a, b) == IF a >= 0 THEN a \div b ELSE -((-a) \div b)
\* Duration::num_seconds: whole seconds, truncated toward zero
num_seconds(d) == TruncDiv(d, NsecPerSec)
SetMin(S) == CHOOSE x \in S : \A y \in S : x <= y

\* --------------------------------------------------------------- time crate
\* at_utc(ts) with hour, minute, second and nanosecond cleared, to_timespec:
\* the UTC midnight of the day ts lies in
utc_midnight(ts) == (ts \div Day) * Day
\* at_utc(ts).tm_wday: 0 = Sunday .. 6 = Saturday; the epoch was a Thursday
tm_wday(ts) == ((ts \div Day) + 4) % 7

\* ------------------------------------------------------------------ Moment
LocalTime(d) == [tag |-> "LocalTime", d |-> d]
UtcTime(d) == [tag |-> "UtcTime", d |-> d]

\* Moment::new(h, m, s), in the compressed scale: s seconds after local midnight
Moment_new(s) == LocalTime(Seconds(s))

\* Mutant of Moment_new_from_timespec: the instant itself is the offset
new_from_timespec_whole(ts) == UtcTime(ts)

Moment_new_from_timespec(ts) == UtcTime(ts - utc_midnight(ts))

\* --------------------------------------------------------- LocalTimeState
Unknown == [tag |-> "Unknown", time |-> 0, before |-> 0, after |-> 0]
NoChangePending(info) ==
    [tag |-> "NoChangePending", time |-> 0, before |-> info, after |-> info]
ChangePending(t, before, after) ==
    [tag |-> "ChangePending", time |-> t, before |-> before, after |-> after]

\* Results of operations that may panic
Ok(ts) == [tag |-> "Ok", ts |-> ts]
Panic(why) == [tag |-> why, ts |-> 0]

\* Mutant of Moment_create_timestamp: the local time itself, not the
\* provisional instant, is compared with the transition
create_timestamp_raw(self, ut_midnight_reference, localtime) ==
    IF self.tag = "UtcTime"
    THEN Ok(ut_midnight_reference + self.d)
    ELSE LET pre_localtime_cor == ut_midnight_reference + self.d
         IN CASE localtime.tag = "NoChangePending" ->
                   Ok(pre_localtime_cor - Seconds(localtime.before))
              [] localtime.tag = "ChangePending" ->
                   LET ut_offset == IF pre_localtime_cor < localtime.time
                                    THEN localtime.before
                                    ELSE localtime.after
                   IN Ok(pre_localtime_cor - Seconds(ut_offset))
              [] OTHER -> Panic("unreachable")

\* Mutant of Moment_create_timestamp: a provisional instant equal to the
\* transition takes the offset before it
create_timestamp_le(self, ut_midnight_reference, localtime) ==
    IF self.tag = "UtcTime"
    THEN Ok(ut_midnight_reference + self.d)
    ELSE LET pre_localtime_cor == ut_midnight_reference + self.d
         IN CASE localtime.tag = "NoChangePending" ->
                   Ok(pre_localtime_cor - Seconds(localtime.before))
              [] localtime.tag = "ChangePending" ->
                   LET reftime == pre_localtime_cor - Seconds(localtime.before)
                       ut_offset == IF reftime <= localtime.time
                                    THEN localtime.before
                                    ELSE localtime.after
                   IN Ok(pre_localtime_cor - Seconds(ut_offset))
              [] OTHER -> Panic("unreachable")

\* Mutant of Moment_create_timestamp: a constant offset is added
create_timestamp_plus(self, ut_midnight_reference, localtime) ==
    IF self.tag = "UtcTime"
    THEN Ok(ut_midnight_reference + self.d)
    ELSE LET pre_localtime_cor == ut_midnight_reference + self.d
         IN CASE localtime.tag = "NoChangePending" ->
                   Ok(pre_localtime_cor + Seconds(localtime.before))
              [] localtime.tag = "ChangePending" ->
                   LET reftime == pre_localtime_cor - Seconds(localtime.before)
                       ut_offset == IF reftime < localtime.time
                                    THEN localtime.before
                                    ELSE localtime.after
                   IN Ok(pre_localtime_cor - Seconds(ut_offset))
              [] OTHER -> Panic("unreachable")

\* Mutant of Moment_create_timestamp: the time of day is left out
create_timestamp_midnight(self, ut_midnight_reference, localtime) ==
    IF self.tag = "UtcTime" \/ localtime.tag # "Unknown"
    THEN Ok(ut_midnight_reference)
    ELSE Panic("unreachable")

\* Moment::create_timestamp; ut_offset values are whole seconds
Moment_create_timestamp(self, ut_midnight_reference, localtime) ==
    IF self.tag = "UtcTime"
    THEN Ok(ut_midnight_reference + self.d)
    ELSE LET pre_localtime_cor == ut_midnight_reference + self.d
         IN CASE localtime.tag = "NoChangePending" ->
                   Ok(pre_localtime_cor - Seconds(localtime.before))
              [] localtime.tag = "ChangePending" ->
                   LET reftime == pre_localtime_cor - Seconds(localtime.before)
                       ut_offset == IF reftime < localtime.time
                                    THEN localtime.before
                                    ELSE localtime.after
                   IN Ok(pre_localtime_cor - Seconds(ut_offset))
              [] OTHER -> Panic("unreachable")

\* ------------------------------------------------------------------ Filter
\* Mutant of Filter_filter_days: Friday and Sunday are the weekend
filter_days_friday(self, time, ut_offset) ==
    LET ref_time == time + Seconds(ut_offset)
        wday == tm_wday(ref_time)
        weekend == wday = 0 \/ wday = 5
    IN CASE self = "Always" -> TRUE
         [] self = "MonToFri" -> ~weekend
         [] self = "Weekend" -> weekend

\* Filter::filter_days
Filter_filter_days(self, time, ut_offset) ==
    LET ref_time == time + Seconds(ut_offset)
        wday == tm_wday(ref_time)
        weekend == wday = 0 \/ wday = 6
    IN CASE self = "Always" -> TRUE
         [] self = "MonToFri" -> ~weekend
         [] self = "Weekend" -> weekend

\* Mutant of Filter_day_scheduled: an instant equal to the transition takes
\* the offset before it
day_scheduled_le(self, time, localtime) ==
    IF self = "Always" THEN "Yes"
    ELSE CASE localtime.tag = "NoChangePending" ->
                IF Filter_filter_days(self, time, localtime.before)
                THEN "Yes" ELSE "No"
           [] localtime.tag = "ChangePending" ->
                LET zoneinfo == IF time <= localtime.time
                                THEN localtime.before ELSE localtime.after
                IN IF Filter_filter_days(self, time, zoneinfo)
                   THEN "Yes" ELSE "No"
           [] OTHER -> "unreachable"

\* Mutant of Filter_day_scheduled: the weekday of the instant in UTC
day_scheduled_utc(self, time, localtime) ==
    IF self = "Always" THEN "Yes"
    ELSE IF localtime.tag = "Unknown" THEN "unreachable"
    ELSE IF Filter_filter_days(self, time, 0) THEN "Yes" ELSE "No"

\* Filter::day_scheduled: "Yes", "No" or "unreachable"
Filter_day_scheduled(self, time, localtime) ==
    IF self = "Always" THEN "Yes"
    ELSE CASE localtime.tag = "NoChangePending" ->
                IF Filter_filter_days(self, time, localtime.before)
                THEN "Yes" ELSE "No"
           [] localtime.tag = "ChangePending" ->
                LET zoneinfo == IF time < localtime.time
                                THEN localtime.before ELSE localtime.after
                IN IF Filter_filter_days(self, time, zoneinfo)
                   THEN "Yes" ELSE "No"
           [] OTHER -> "unreachable"

\* -------------------------------------------------------------- DailyEvent
\* DailyEvent::Fixed(filter, moment)
Fixed(w, m) == [kind |-> "Fixed", filter |-> w, m1 |-> m, m2 |-> m,
                func |-> "none", variance |-> 0]
\* DailyEvent::Fuzzy(filter, m1, m2)
Fuzzy(w, m1, m2) == [kind |-> "Fuzzy", filter |-> w, m1 |-> m1, m2 |-> m2,
                     func |-> "none", variance |-> 0]
\* DailyEvent::ByClosure(filter, func, variance).  Two closures are modelled:
\* "constant" is |_| m (tests.rs:112) and "from_timespec" is
\* |ts| Moment::new_from_timespec(ts + m.d) (tests.rs:322, 376)
ByClosure(w, func, m, variance) ==
    [kind |-> "ByClosure", filter |-> w, m1 |-> m, m2 |-> m,
     func |-> func, variance |-> variance]

\* The call func(ut_midnight_reference) of a ByClosure event
call_func(moment, ut_midnight_reference) ==
    IF moment.func = "from_timespec"
    THEN Moment_new_from_timespec(ut_midnight_reference + moment.m1.d)
    ELSE moment.m1

\* ------------------------------------------------------------------- Event
\* Event { moment, action, context }
Event(moment, action, context) ==
    [moment |-> moment, action |-> action, context |-> context]

\* Mutant of gen_range_high: the window of a Fuzzy event is taken from its
\* first to its second moment
gen_range_high_unordered(moment, t1, t2) ==
    CASE moment.kind = "Fuzzy" ->
           LET duration == t2 - t1
           IN IF duration > Seconds(0) THEN num_seconds(duration) ELSE -1
      [] moment.kind = "ByClosure" ->
           IF moment.variance > Seconds(0)
           THEN num_seconds(moment.variance) ELSE -1
      [] OTHER -> -1

\* The upper bound the event hands to rng.gen_range(0, high), or -1 when the
\* event draws nothing (lib.rs:202-203, 212-213)
gen_range_high(moment, t1, t2) ==
    CASE moment.kind = "Fuzzy" ->
           LET t_start == IF t1 >= t2 THEN t2 ELSE t1
               t_end == IF t1 >= t2 THEN t1 ELSE t2
               duration == t_end - t_start
           IN IF duration > Seconds(0) THEN num_seconds(duration) ELSE -1
      [] moment.kind = "ByClosure" ->
           IF moment.variance > Seconds(0)
           THEN num_seconds(moment.variance) ELSE -1
      [] OTHER -> -1

\* Mutant of gen_range: a value of 1..high
gen_range_from_one(high) == 1 .. high

\* rng.gen_range(0, high) asserts 0 < high and returns a value of 0..high-1
gen_range(high) == 0 .. (high - 1)

\* Some(ts) / None of Event::create_timestamp, and its panics
Some(ts) == [tag |-> "Some", ts |-> ts]
None == [tag |-> "None", ts |-> 0]

\* The filter step of Event::create_timestamp (lib.rs:221-231)
do_schedule(moment, ts, localtime) ==
    LET s == Filter_day_scheduled(moment.filter, ts, localtime)
    IN CASE s = "Yes" -> Some(ts)
         [] s = "No" -> None
         [] OTHER -> Panic(s)

\* Event::create_timestamp with r the value the random generator returns
\* (read only where the code draws)
Event_create_timestamp(self, ut_midnight_reference, localtime, r) ==
    LET moment == self.moment
    IN CASE moment.kind = "Fixed" ->
              LET t == Moment_create_timestamp(moment.m1, ut_midnight_reference,
                                               localtime)
              IN IF t.tag # "Ok" THEN t
                 ELSE do_schedule(moment, t.ts, localtime)
         [] moment.kind = "Fuzzy" ->
              LET t1 == Moment_create_timestamp(moment.m1, ut_midnight_reference,
                                                localtime)
                  t2 == Moment_create_timestamp(moment.m2, ut_midnight_reference,
                                                localtime)
              IN IF t1.tag # "Ok" THEN t1
                 ELSE IF t2.tag # "Ok" THEN t2
                 ELSE LET t_start == IF t1.ts >= t2.ts THEN t2.ts ELSE t1.ts
                          high == gen_range_high(moment, t1.ts, t2.ts)
                      IN IF high = -1
                         THEN do_schedule(moment, t_start, localtime)
                         ELSE IF gen_range(high) = {}
                         THEN Panic("gen_range")
                         ELSE do_schedule(moment, t_start + Seconds(r), localtime)
         [] moment.kind = "ByClosure" ->
              LET m == call_func(moment, ut_midnight_reference)
                  high == gen_range_high(moment, 0, 0)
              IN IF high # -1 /\ gen_range(high) = {}
                 THEN Panic("gen_range")
                 ELSE LET offset == IF high # -1 THEN r ELSE 0
                          delta == Seconds(TruncDiv(num_seconds(moment.variance), 2)
                                           - offset)
                          t == Moment_create_timestamp(m, ut_midnight_reference,
                                                       localtime)
                      IN IF t.tag # "Ok" THEN t
                         ELSE do_schedule(moment, t.ts + delta, localtime)

\* The values the random generator can return to this event on this day
Draws(self, ut_midnight_reference, localtime) ==
    LET moment == self.moment
        t1 == Moment_create_timestamp(moment.m1, ut_midnight_reference, localtime)
        t2 == Moment_create_timestamp(moment.m2, ut_midnight_reference, localtime)
        high == gen_range_high(moment, t1.ts, t2.ts)
    IN IF high = -1 \/ gen_range(high) = {} THEN {0} ELSE gen_range(high)

\* ---------------------------------------------------------------- ZoneInfo
\* The zoneinfo crate as Schedule uses it: a zone is the offset in effect
\* from known_from on and its later transitions, in ascending order
Zone(known_from, ut_offset, transitions) ==
    [known_from |-> known_from, ut_offset |-> ut_offset,
     transitions |-> transitions]
Transition(at, ut_offset) == [at |-> at, ut_offset |-> ut_offset]

\* ZoneInfo::get_actual_zoneinfo(timestamp): Option<ZoneInfoElement>
get_actual_zoneinfo(zi, timestamp) ==
    LET past == {i \in DOMAIN zi.transitions : zi.transitions[i].at <= timestamp}
    IN IF timestamp < zi.known_from THEN None
       ELSE IF past = {} THEN Some(zi.ut_offset)
       ELSE Some(zi.transitions[-SetMin({-i : i \in past})].ut_offset)

\* ZoneInfo::get_next_transition_time(timestamp): the first transition
\* strictly after timestamp, [tag, ts, ut_offset]
get_next_transition_time(zi, timestamp) ==
    LET future == {i \in DOMAIN zi.transitions : zi.transitions[i].at > timestamp}
    IN IF future = {} THEN [tag |-> "None", ts |-> 0, ut_offset |-> 0]
       ELSE LET n == zi.transitions[SetMin(future)]
            IN [tag |-> "Some", ts |-> n.at, ut_offset |-> n.ut_offset]

\* ---------------------------------------------------------------- Schedule
VARIABLES
    zoneinfo,    \* Schedule.zoneinfo
    events,      \* Schedule.events: the registered events, in add_event order
    localtime,   \* Schedule.localtime
    schedule,    \* Schedule.schedule: timestamp -> list of occurrences
    hints,       \* the Handler::hint calls made so far, in order
    kicks,       \* the Handler::kick calls made so far, in order
    occs,        \* number of occurrences inserted into schedule so far
    updates,     \* number of update_schedule calls so far
    refs,        \* the reference days of the update_schedule calls so far
    nows,        \* whether no kick_event call so far had a now smaller than
                 \* the call before it, and while so the now of the last call
    status,      \* "ok", or the panic that ended the program
    lastOp,      \* the last public call: its name, argument and return value,
                 \* and the state it was made in
    twin         \* a second Schedule on the same zoneinfo, used where two
                 \* instances are compared: its fields, handler logs and
                 \* last return value

vars == <<zoneinfo, events, localtime, schedule, hints, kicks, occs, updates,
          refs, nows, status, lastOp, twin>>

\* Mutant of new_change_state: offset 0 where the zone has none
new_change_state_or_utc(zi, timestamp) ==
    LET actual == get_actual_zoneinfo(zi, timestamp)
        next == get_next_transition_time(zi, timestamp)
        offset == IF actual.tag = "None" THEN 0 ELSE actual.ts
    IN IF next.tag = "Some"
       THEN ChangePending(next.ts, offset, next.ut_offset)
       ELSE NoChangePending(offset)

\* Schedule::new_change_state: a LocalTimeState, or the panic of unwrap()
new_change_state(zi, timestamp) ==
    LET actual == get_actual_zoneinfo(zi, timestamp)
        next == get_next_transition_time(zi, timestamp)
    IN IF actual.tag = "None" THEN Panic("unwrap")
       ELSE IF next.tag = "Some"
       THEN ChangePending(next.ts, actual.ts, next.ut_offset)
       ELSE NoChangePending(actual.ts)

\* Mutant of refresh: an Unknown window is left as it is
refresh_pending_only(zi, lt, ut_midnight_reference) ==
    IF lt.tag = "ChangePending" /\ lt.time <= ut_midnight_reference
    THEN new_change_state(zi, ut_midnight_reference)
    ELSE lt

\* Mutant of refresh: only an Unknown window is resolved
refresh_once(zi, lt, ut_midnight_reference) ==
    IF lt.tag = "Unknown" THEN new_change_state(zi, ut_midnight_reference)
    ELSE lt

\* Mutant of refresh: a transition at the reference day itself is kept
refresh_strict(zi, lt, ut_midnight_reference) ==
    CASE lt.tag = "Unknown" -> new_change_state(zi, ut_midnight_reference)
      [] lt.tag = "ChangePending" ->
           IF lt.time < ut_midnight_reference
           THEN new_change_state(zi, ut_midnight_reference)
           ELSE lt
      [] OTHER -> lt

\* The window update_schedule computes timestamps against (lib.rs:301-310)
refresh(zi, lt, ut_midnight_reference) ==
    CASE lt.tag = "Unknown" -> new_change_state(zi, ut_midnight_reference)
      [] lt.tag = "ChangePending" ->
           IF lt.time <= ut_midnight_reference
           THEN new_change_state(zi, ut_midnight_reference)
           ELSE lt
      [] OTHER -> lt

\* Mutant of insert: the occurrence replaces the list of its key
insert_replace(sched, timestamp, occurrence) ==
    [k \in DOMAIN sched \cup {timestamp} |->
       IF k = timestamp THEN <<occurrence>> ELSE sched[k]]

\* Mutant of insert: an event that has an occurrence under the key gets no
\* second one
insert_once(sched, timestamp, occurrence) ==
    IF timestamp \in DOMAIN sched
    THEN IF \E j \in DOMAIN sched[timestamp] : sched[timestamp][j].ev = occurrence.ev
         THEN sched
         ELSE [sched EXCEPT ![timestamp] = Append(@, occurrence)]
    ELSE [k \in DOMAIN sched \cup {timestamp} |->
            IF k = timestamp THEN <<occurrence>> ELSE sched[k]]

\* self.schedule after the insertion of one occurrence (lib.rs:317-323)
insert(sched, timestamp, occurrence) ==
    IF timestamp \in DOMAIN sched
    THEN [sched EXCEPT ![timestamp] = Append(@, occurrence)]
    ELSE [k \in DOMAIN sched \cup {timestamp} |->
            IF k = timestamp THEN <<occurrence>> ELSE sched[k]]

\* One entry of a handler's log: the timestamp and the event of the call, with
\* the occurrence it is about
Call(timestamp, occurrence) ==
    [ts |-> timestamp, ev |-> occurrence.ev, id |-> occurrence.id]

\* Mutant of update_event: hint is called before and after the insertion
update_event_hint_twice(i, ut_midnight_reference, lt, r, acc) ==
    LET timestamp == Event_create_timestamp(events[i], ut_midnight_reference, lt, r)
        occurrence == [ev |-> i, id |-> acc.occs + 1]
    IN CASE timestamp.tag = "Some" ->
              [schedule |-> insert(acc.schedule, timestamp.ts, occurrence),
               hints |-> acc.hints \o <<Call(timestamp.ts, occurrence),
                                         Call(timestamp.ts, occurrence)>>,
               occs |-> acc.occs + 1,
               status |-> "ok"]
         [] timestamp.tag = "None" -> acc
         [] OTHER -> [acc EXCEPT !.status = timestamp.tag]

\* Mutant of update_event: the draw handed in is ignored, the event takes the
\* first value of its range
update_event_own_draw(i, ut_midnight_reference, lt, r, acc) ==
    LET timestamp == Event_create_timestamp(events[i], ut_midnight_reference, lt, 0)
        occurrence == [ev |-> i, id |-> acc.occs + 1]
    IN CASE timestamp.tag = "Some" ->
              [schedule |-> insert(acc.schedule, timestamp.ts, occurrence),
               hints |-> Append(acc.hints, Call(timestamp.ts, occurrence)),
               occs |-> acc.occs + 1,
               status |-> "ok"]
         [] timestamp.tag = "None" -> acc
         [] OTHER -> [acc EXCEPT !.status = timestamp.tag]

\* One iteration of the loop of update_schedule for the event at index i
update_event(i, ut_midnight_reference, lt, r, acc) ==
    LET timestamp == Event_create_timestamp(events[i], ut_midnight_reference, lt, r)
        occurrence == [ev |-> i, id |-> acc.occs + 1]
    IN CASE timestamp.tag = "Some" ->
              [schedule |-> insert(acc.schedule, timestamp.ts, occurrence),
               hints |-> Append(acc.hints, Call(timestamp.ts, occurrence)),
               occs |-> acc.occs + 1,
               status |-> "ok"]
         [] timestamp.tag = "None" -> acc
         [] OTHER -> [acc EXCEPT !.status = timestamp.tag]

\* The loop of update_schedule from index i on, rs the draws of these events;
\* a panic ends it
RECURSIVE update_events(_, _, _, _, _)
update_events(i, ut_midnight_reference, lt, rs, acc) ==
    IF i > Len(events) \/ acc.status # "ok" THEN acc
    ELSE update_events(i + 1, ut_midnight_reference, lt, Tail(rs),
                       update_event(i, ut_midnight_reference, lt, Head(rs), acc))

\* Schedule::update_schedule, rs being the random draws of the events in order
update_schedule(ut_midnight_reference, rs) ==
    LET lt == refresh(zoneinfo, localtime, ut_midnight_reference)
    IN IF lt.tag = "unwrap"
       THEN /\ status' = "unwrap"
            /\ UNCHANGED <<localtime, schedule, hints, occs>>
       ELSE LET out == update_events(1, ut_midnight_reference, lt, rs,
                           [schedule |-> schedule, hints |-> hints,
                            occs |-> occs, status |-> "ok"])
            IN /\ localtime' = lt
               /\ schedule' = out.schedule
               /\ hints' = out.hints
               /\ occs' = out.occs
               /\ status' = out.status

\* Mutant of keys: descending order
RECURSIVE keys_descending(_)
keys_descending(S) ==
    IF S = {} THEN <<>>
    ELSE LET k == SetMin(S) IN keys_descending(S \ {k}) \o <<k>>

\* The keys of a BTreeMap in ascending order
RECURSIVE keys(_)
keys(S) == IF S = {} THEN <<>>
           ELSE LET k == SetMin(S) IN <<k>> \o keys(S \ {k})

\* Mutant of first_key: the last key instead of the first
first_key_last(sched) ==
    IF DOMAIN sched = {} THEN None ELSE Some(-SetMin({-k : k \in DOMAIN sched}))

\* self.schedule.keys().cloned().nth(0)
first_key(sched) ==
    IF DOMAIN sched = {} THEN None ELSE Some(SetMin(DOMAIN sched))

\* A kick call as the log keeps it: seen is the number of occurrences that had
\* been inserted when kick_event was called
Kicked(timestamp, occurrence, seen) ==
    [ts |-> timestamp, ev |-> occurrence.ev, id |-> occurrence.id, seen |-> seen]

\* The kick calls of the first loop of kick_event (lib.rs:333-339)
RECURSIVE kick_all(_, _, _)
kick_all(sched, past, seen) ==
    IF past = <<>> THEN <<>>
    ELSE LET timestamp == Head(past)
         IN [j \in 1..Len(sched[timestamp]) |->
               Kicked(timestamp, sched[timestamp][j], seen)]
            \o kick_all(sched, Tail(past), seen)

\* Mutant of past_events: k < now instead of k <= now
past_events_strict(sched, now) == keys({k \in DOMAIN sched : k < now})

\* The keys kick_event collects (lib.rs:330)
past_events(sched, now) == keys({k \in DOMAIN sched : k <= now})

\* Mutant of remove_all: the lists of the due keys are emptied, the keys stay
remove_all_emptied(sched, past) ==
    [k \in DOMAIN sched |->
       IF k \in {past[i] : i \in DOMAIN past} THEN <<>> ELSE sched[k]]

\* Mutant of remove_all: the last of the due keys is left in the map
remove_all_but_last(sched, past) ==
    [k \in DOMAIN sched \ {past[i] : i \in 1 .. Len(past) - 1} |-> sched[k]]

\* self.schedule after the removals of kick_event (lib.rs:342-344)
remove_all(sched, past) ==
    [k \in DOMAIN sched \ {past[i] : i \in DOMAIN past} |-> sched[k]]

\* Schedule::kick_event; its return value is first_key of the schedule it leaves
kick_event(now) ==
    LET past == past_events(schedule, now)
    IN /\ kicks' = kicks \o kick_all(schedule, past, occs)
       /\ schedule' = remove_all(schedule, past)

\* Mutant of peek_event: the largest key
peek_event_last == first_key_last(schedule)

\* Schedule::peek_event
peek_event == first_key(schedule)

EmptySchedule == [k \in {} |-> <<>>]

\* ------------------------------------------------------ a second Schedule
\* Schedule::new as a value: the fields of a Schedule, the logs of its
\* handlers and the value its last call returned
NewInstance ==
    [events |-> <<>>, localtime |-> Unknown, schedule |-> EmptySchedule,
     hints |-> <<>>, kicks |-> <<>>, occs |-> 0, status |-> "ok", ret |-> None]

\* Schedule::add_event on the instance self
instance_add_event(self, e) ==
    [self EXCEPT !.events = Append(@, e), !.ret = None]

\* One iteration of the loop of update_schedule on the instance self
instance_update_event(self, i, ut_midnight_reference, lt, r, acc) ==
    LET timestamp == Event_create_timestamp(self.events[i], ut_midnight_reference,
                                            lt, r)
        occurrence == [ev |-> i, id |-> acc.occs + 1]
    IN CASE timestamp.tag = "Some" ->
              [schedule |-> insert(acc.schedule, timestamp.ts, occurrence),
               hints |-> Append(acc.hints, Call(timestamp.ts, occurrence)),
               occs |-> acc.occs + 1,
               status |-> "ok"]
         [] timestamp.tag = "None" -> acc
         [] OTHER -> [acc EXCEPT !.status = timestamp.tag]

\* The loop of update_schedule on the instance self from index i on
RECURSIVE instance_update_events(_, _, _, _, _, _)
instance_update_events(self, i, ut_midnight_reference, lt, rs, acc) ==
    IF i > Len(self.events) \/ acc.status # "ok" THEN acc
    ELSE instance_update_events(self, i + 1, ut_midnight_reference, lt, Tail(rs),
             instance_update_event(self, i, ut_midnight_reference, lt, Head(rs),
                                   acc))

\* Schedule::update_schedule on the instance self, built on the zone zi
instance_update_schedule(self, zi, ut_midnight_reference, rs) ==
    LET lt == refresh(zi, self.localtime, ut_midnight_reference)
    IN IF lt.tag = "unwrap"
       THEN [self EXCEPT !.status = "unwrap", !.ret = None]
       ELSE LET out == instance_update_events(self, 1, ut_midnight_reference, lt, rs,
                           [schedule |-> self.schedule, hints |-> self.hints,
                            occs |-> self.occs, status |-> "ok"])
            IN [self EXCEPT !.localtime = lt, !.schedule = out.schedule,
                            !.hints = out.hints, !.occs = out.occs,
                            !.status = out.status, !.ret = None]

\* Schedule::kick_event on the instance self
instance_kick_event(self, now) ==
    LET past == past_events(self.schedule, now)
        left == remove_all(self.schedule, past)
    IN [self EXCEPT !.kicks = @ \o kick_all(self.schedule, past, self.occs),
                    !.schedule = left, !.ret = first_key(left)]

\* Schedule::peek_event on the instance self
instance_peek_event(self) == [self EXCEPT !.ret = first_key(self.schedule)]

\* -------------------------------------------------------------- the inputs
\* The zones a Schedule is built on: one without transition, and one that
\* falls back one second into day 2
Utc == Zone(Days(0), 0, <<>>)
FallBack == Zone(Days(0), -1, <<Transition(Days(2) + Seconds(1), -2)>>)
Zones == {Utc, FallBack}

\* The events add_event is called with: the UTC midnight, from a closure; the
\* last second of the local day, on working days; and a window between a local
\* time and a UTC time that ends within a second of it
Catalog ==
    { Event(ByClosure("Always", "from_timespec", UtcTime(0), 0), "h1", "Two"),
      Event(Fixed("MonToFri", Moment_new(SecPerDay - 1)), "h2", "One"),
      Event(Fuzzy("Always", Moment_new(3), UtcTime(Seconds(3) - 1)), "h2", "Two") }

\* The reference days update_schedule is called with, in any order: a Friday
\* and the Saturday after it, the day of the transition
RefDays == {Days(1), Days(2)}

\* The instants kick_event is called with: around every pending timestamp
NowChoices ==
    {0} \cup {k + e : k \in DOMAIN schedule, e \in {0, 1}}

\* The draws of the events from index i on, one value for each event
RECURSIVE draw_seqs(_, _, _)
draw_seqs(i, ref, lt) ==
    IF i > Len(events) THEN {<<>>}
    ELSE {<<r>> \o rs : r \in Draws(events[i], ref, lt),
                        rs \in draw_seqs(i + 1, ref, lt)}

\* The record of a public call and the state it was made in; since is the
\* number of occurrences inserted before the call before it, when that call
\* was an update_schedule, and -1 otherwise
Pre == [events |-> events, localtime |-> localtime, schedule |-> schedule,
        hints |-> Len(hints), kicks |-> Len(kicks), occs |-> occs,
        since |-> IF lastOp.op = "update_schedule" THEN lastOp.pre.occs
                                                     ELSE -1]
Op(op, arg, ret) == [op |-> op, arg |-> arg, ret |-> ret, pre |-> Pre]

\* ------------------------------------------------------------------ actions
Init ==
    /\ zoneinfo \in Zones
    /\ events = <<>>
    /\ localtime = Unknown
    /\ schedule = EmptySchedule
    /\ hints = <<>>
    /\ kicks = <<>>
    /\ occs = 0
    /\ updates = 0
    /\ status = "ok"
    /\ refs = <<>>
    /\ nows = [last |-> 0, ordered |-> TRUE]
    /\ lastOp = [op |-> "new", arg |-> 0, ret |-> None,
                 pre |-> [events |-> <<>>, localtime |-> Unknown,
                          schedule |-> EmptySchedule, hints |-> 0, kicks |-> 0,
                          occs |-> 0, since |-> -1]]
    /\ twin = NewInstance

\* Schedule::add_event
AddEvent ==
    /\ status = "ok"
    /\ Len(events) < MaxEvents
    /\ \E e \in Catalog :
         /\ events' = Append(events, e)
         /\ lastOp' = Op("add_event", 0, None)
    /\ UNCHANGED <<zoneinfo, localtime, schedule, hints, kicks, occs, updates,
                   refs, nows, status, twin>>

\* Schedule::update_schedule
UpdateSchedule ==
    /\ status = "ok"
    /\ updates < MaxUpdates
    /\ occs + Len(events) <= MaxOccs
    /\ \E ref \in RefDays :
         LET lt == refresh(zoneinfo, localtime, ref)
         IN \E rs \in draw_seqs(1, ref, lt) :
              /\ update_schedule(ref, rs)
              /\ lastOp' = Op("update_schedule", ref, None)
              /\ refs' = Append(refs, ref)
    /\ updates' = updates + 1
    /\ UNCHANGED <<zoneinfo, events, kicks, nows, twin>>

\* Schedule::kick_event
KickEvent ==
    /\ status = "ok"
    /\ \E now \in NowChoices :
         /\ kick_event(now)
         /\ lastOp' = Op("kick_event", now, first_key(schedule'))
         /\ nows' = IF nows.ordered /\ nows.last <= now
                       THEN [last |-> now, ordered |-> TRUE]
                       ELSE [last |-> 0, ordered |-> FALSE]
    /\ UNCHANGED <<zoneinfo, events, localtime, hints, occs, updates, refs,
                   status, twin>>

\* Schedule::peek_event
PeekEvent ==
    /\ status = "ok"
    /\ lastOp' = Op("peek_event", 0, peek_event)
    /\ UNCHANGED <<zoneinfo, events, localtime, schedule, hints, kicks, occs,
                   updates, refs, nows, status, twin>>

Next == AddEvent \/ UpdateSchedule \/ KickEvent \/ PeekEvent

Spec == Init /\ [][Next]_vars

\* ------------------------------------------------- the schedule of a week
\* The use the tests make of a Schedule: the events are registered, then
\* update_schedule is called once for each of ScheduledDays consecutive days
\* from the epoch on, a Thursday, or for the first of these days, and then
\* kick_event is called with the timestamp peek_event or the last kick_event
\* returned until none is left
ScheduledDays == 8

\* Zones east of Greenwich: a spring-forward transition a second into a day,
\* and one a second before a midnight
SpringForward == Zone(Days(0), 1, <<Transition(Days(2) + Seconds(1), 2)>>)
EastSpringForward == Zone(Days(0), 2, <<Transition(Days(3) - Seconds(1), 3)>>)
\* A zone a second east of Greenwich, without transitions
East == Zone(Days(0), 1, <<>>)
\* A zone that springs forward at the midnight of day 2 and falls back at the
\* midnight of day 4
Summer == Zone(Days(0), 0, <<Transition(Days(2), 1), Transition(Days(4), 0)>>)
DailyZones == {Utc, East, FallBack, SpringForward, EastSpringForward, Summer}

\* The events of the tests: two local times every day, a local time at
\* weekends and on working days, and a UTC time from a closure
DailyCatalog ==
    { Event(Fixed("Always", Moment_new(0)), "h1", "One"),
      Event(Fixed("Always", Moment_new(3)), "h1", "Two"),
      Event(Fixed("Weekend", Moment_new(2)), "h1", "Two"),
      Event(Fixed("MonToFri", Moment_new(2)), "h2", "One"),
      Event(ByClosure("Always", "from_timespec", UtcTime(Seconds(5)), 0),
            "h2", "Two") }

DailyInit ==
    /\ zoneinfo \in DailyZones
    /\ events = <<>>
    /\ localtime = Unknown
    /\ schedule = EmptySchedule
    /\ hints = <<>>
    /\ kicks = <<>>
    /\ occs = 0
    /\ updates = 0
    /\ status = "ok"
    /\ refs = <<>>
    /\ nows = [last |-> 0, ordered |-> TRUE]
    /\ lastOp = [op |-> "new", arg |-> 0, ret |-> None,
                 pre |-> [events |-> <<>>, localtime |-> Unknown,
                          schedule |-> EmptySchedule, hints |-> 0, kicks |-> 0,
                          occs |-> 0, since |-> -1]]
    /\ twin = NewInstance

\* Schedule::add_event, before the first day is scheduled
DailyAddEvent ==
    /\ status = "ok"
    /\ refs = <<>>
    /\ Len(events) < MaxEvents
    /\ \E e \in DailyCatalog :
         /\ events' = Append(events, e)
         /\ lastOp' = Op("add_event", 0, None)
    /\ UNCHANGED <<zoneinfo, localtime, schedule, hints, kicks, occs, updates,
                   refs, nows, status, twin>>

\* Schedule::update_schedule for the day after the last one scheduled, as long
\* as kick_event has not been called
DailyUpdateSchedule ==
    /\ status = "ok"
    /\ kicks = <<>>
    /\ Len(refs) < ScheduledDays
    /\ LET ref == Days(Len(refs))
           lt == refresh(zoneinfo, localtime, ref)
       IN \E rs \in draw_seqs(1, ref, lt) :
            /\ update_schedule(ref, rs)
            /\ lastOp' = Op("update_schedule", ref, None)
            /\ refs' = Append(refs, ref)
    /\ updates' = updates + 1
    /\ UNCHANGED <<zoneinfo, events, kicks, nows, twin>>

\* Schedule::kick_event with the first pending timestamp
DailyKickEvent ==
    /\ status = "ok"
    /\ peek_event.tag = "Some"
    /\ LET now == peek_event.ts
       IN /\ kick_event(now)
          /\ lastOp' = Op("kick_event", now, first_key(schedule'))
          /\ nows' = IF nows.ordered /\ nows.last <= now
                        THEN [last |-> now, ordered |-> TRUE]
                        ELSE [last |-> 0, ordered |-> FALSE]
    /\ UNCHANGED <<zoneinfo, events, localtime, hints, occs, updates, refs,
                   status, twin>>

DailyNext == DailyAddEvent \/ DailyUpdateSchedule \/ DailyKickEvent \/ PeekEvent

SpecDaily == DailyInit /\ [][DailyNext]_vars

\* ------------------------------------------------ one event on one day
\* The use the one-day tests make of a Schedule: one event is registered,
\* update_schedule is called once, and peek_event and kick_event are called
\* with the timestamp returned last.  Late is a zone whose data begin on the
\* second day, so that it has no offset for the first
Late == Zone(Days(2), 0, <<>>)
OneZones == {Utc, FallBack, SpringForward, Late}

\* The jitter of the closure events: negative, none, less than a second, and
\* one, two and three seconds
Jitters == {Seconds(-2), Seconds(-1), 0, 1, Seconds(1), Seconds(2), Seconds(3)}

\* The instants Moment::new_from_timespec is called with: before the epoch,
\* within day 1, the midnight of day 2 and within day 3
Sunrises == {0 - 1, Days(1) + 3, Days(2), Days(3) + Seconds(1) + 1}

\* The event registered: a local time of day at midnight, two seconds later
\* or a second before the next midnight; a UTC time of day; a closure that
\* returns a local time of day, with a jitter; or an event with a weekday
\* filter whose instants lie around a midnight
OneCatalog ==
    { Event(Fixed("Always", Moment_new(o)), "h1", "One") :
        o \in {0, 2, SecPerDay - 1} }
    \cup { Event(Fixed("Always", UtcTime(Seconds(1))), "h1", "Two") }
    \cup { Event(ByClosure("Always", "constant", Moment_new(2), j), "h2", "One") :
             j \in Jitters }
    \cup { Event(Fixed("Weekend", UtcTime(Seconds(SecPerDay - 1))), "h1", "One"),
           Event(Fixed("MonToFri", Moment_new(0)), "h1", "Two"),
           Event(ByClosure("Weekend", "constant", Moment_new(0), Seconds(3)),
                 "h2", "One"),
           Event(Fuzzy("MonToFri", UtcTime(Seconds(SecPerDay - 2)),
                       Moment_new(SecPerDay + 1)), "h2", "Two"),
           Event(Fuzzy("MonToFri", Moment_new(SecPerDay + 1),
                       UtcTime(Seconds(SecPerDay - 2))), "h2", "Two"),
           Event(Fuzzy("Always", Moment_new(2), UtcTime(Seconds(2) - 1)),
                 "h2", "One") }
    \cup { Event(Fixed("Always", Moment_new_from_timespec(t)), "h1", "Two") :
             t \in Sunrises }

OneInit ==
    /\ zoneinfo \in OneZones
    /\ events = <<>>
    /\ localtime = Unknown
    /\ schedule = EmptySchedule
    /\ hints = <<>>
    /\ kicks = <<>>
    /\ occs = 0
    /\ updates = 0
    /\ status = "ok"
    /\ refs = <<>>
    /\ nows = [last |-> 0, ordered |-> TRUE]
    /\ lastOp = [op |-> "new", arg |-> 0, ret |-> None,
                 pre |-> [events |-> <<>>, localtime |-> Unknown,
                          schedule |-> EmptySchedule, hints |-> 0, kicks |-> 0,
                          occs |-> 0, since |-> -1]]
    /\ twin = NewInstance

\* Schedule::add_event, once
OneAddEvent ==
    /\ status = "ok"
    /\ events = <<>>
    /\ \E e \in OneCatalog :
         /\ events' = Append(events, e)
         /\ lastOp' = Op("add_event", 0, None)
    /\ UNCHANGED <<zoneinfo, localtime, schedule, hints, kicks, occs, updates,
                   refs, nows, status, twin>>

\* Schedule::update_schedule, once, for the event registered
OneUpdateSchedule ==
    /\ status = "ok"
    /\ events # <<>>
    /\ refs = <<>>
    /\ \E ref \in RefDays :
         LET lt == refresh(zoneinfo, localtime, ref)
         IN \E rs \in draw_seqs(1, ref, lt) :
              /\ update_schedule(ref, rs)
              /\ lastOp' = Op("update_schedule", ref, None)
              /\ refs' = Append(refs, ref)
    /\ updates' = updates + 1
    /\ UNCHANGED <<zoneinfo, events, kicks, nows, twin>>

\* Schedule::kick_event with the first pending timestamp
OneKickEvent ==
    /\ status = "ok"
    /\ peek_event.tag = "Some"
    /\ LET now == peek_event.ts
       IN /\ kick_event(now)
          /\ lastOp' = Op("kick_event", now, first_key(schedule'))
          /\ nows' = IF nows.ordered /\ nows.last <= now
                        THEN [last |-> now, ordered |-> TRUE]
                        ELSE [last |-> 0, ordered |-> FALSE]
    /\ UNCHANGED <<zoneinfo, events, localtime, hints, occs, updates, refs,
                   status, twin>>

OneNext == OneAddEvent \/ OneUpdateSchedule \/ OneKickEvent \/ PeekEvent

SpecOne == OneInit /\ [][OneNext]_vars

\* ------------------------------------------------------- two Schedules
\* Two Schedules built on the same zoneinfo, the zone that falls back,
\* receive the same calls, and update_schedule hands both the same draws
TwoInit ==
    /\ zoneinfo = FallBack
    /\ events = <<>>
    /\ localtime = Unknown
    /\ schedule = EmptySchedule
    /\ hints = <<>>
    /\ kicks = <<>>
    /\ occs = 0
    /\ updates = 0
    /\ status = "ok"
    /\ refs = <<>>
    /\ nows = [last |-> 0, ordered |-> TRUE]
    /\ lastOp = [op |-> "new", arg |-> 0, ret |-> None,
                 pre |-> [events |-> <<>>, localtime |-> Unknown,
                          schedule |-> EmptySchedule, hints |-> 0, kicks |-> 0,
                          occs |-> 0, since |-> -1]]
    /\ twin = NewInstance

TwoAddEvent ==
    /\ status = "ok"
    /\ Len(events) < MaxEvents
    /\ \E e \in Catalog :
         /\ events' = Append(events, e)
         /\ lastOp' = Op("add_event", 0, None)
         /\ twin' = instance_add_event(twin, e)
    /\ UNCHANGED <<zoneinfo, localtime, schedule, hints, kicks, occs, updates,
                   refs, nows, status>>

TwoUpdateSchedule ==
    /\ status = "ok"
    /\ updates < MaxUpdates
    /\ occs + Len(events) <= MaxOccs
    /\ \E ref \in RefDays :
         LET lt == refresh(zoneinfo, localtime, ref)
         IN \E rs \in draw_seqs(1, ref, lt) :
              /\ update_schedule(ref, rs)
              /\ lastOp' = Op("update_schedule", ref, None)
              /\ refs' = Append(refs, ref)
              /\ twin' = instance_update_schedule(twin, zoneinfo, ref, rs)
    /\ updates' = updates + 1
    /\ UNCHANGED <<zoneinfo, events, kicks, nows>>

TwoKickEvent ==
    /\ status = "ok"
    /\ \E now \in {0} \cup DOMAIN schedule :
         /\ kick_event(now)
         /\ lastOp' = Op("kick_event", now, first_key(schedule'))
         /\ nows' = IF nows.ordered /\ nows.last <= now
                       THEN [last |-> now, ordered |-> TRUE]
                       ELSE [last |-> 0, ordered |-> FALSE]
         /\ twin' = instance_kick_event(twin, now)
    /\ UNCHANGED <<zoneinfo, events, localtime, hints, occs, updates, refs,
                   status>>

TwoPeekEvent ==
    /\ status = "ok"
    /\ lastOp' = Op("peek_event", 0, peek_event)
    /\ twin' = instance_peek_event(twin)
    /\ UNCHANGED <<zoneinfo, events, localtime, schedule, hints, kicks, occs,
                   updates, refs, nows, status>>

TwoNext == TwoAddEvent \/ TwoUpdateSchedule \/ TwoKickEvent \/ TwoPeekEvent

SpecTwo == TwoInit /\ [][TwoNext]_vars

\* ============================================================== properties
\* The last public call
IsKick == lastOp.op = "kick_event"
IsUpdate == lastOp.op = "update_schedule"
IsAdd == lastOp.op = "add_event"
IsPeek == lastOp.op = "peek_event"
\* The kick and hint calls the last public call made
NewKicks == SubSeq(kicks, lastOp.pre.kicks + 1, Len(kicks))
NewHints == SubSeq(hints, lastOp.pre.hints + 1, Len(hints))
\* The occurrences pending in a schedule, as <<key, position>> pairs
Pending(sched) == UNION {{<<k, j>> : j \in DOMAIN sched[k]} : k \in DOMAIN sched}
\* The position an occurrence has in the list of its key
Position(sched, k, id) == CHOOSE j \in DOMAIN sched[k] : sched[k][j].id = id

\* C1: kick_event(now) calls kick for exactly the pending occurrences whose key
\* is <= now, once each and for no others, keys ascending, the occurrences of
\* one key in the order of its list, and hands the handler the key
C1_KickFiresDue ==
    IsKick =>
      LET now == lastOp.arg
          before == lastOp.pre.schedule
          due == {p \in Pending(before) : p[1] <= now}
      IN /\ Len(kicks) >= lastOp.pre.kicks
         /\ Len(NewKicks) = Cardinality(due)
         /\ \A p \in due :
              \E i \in DOMAIN NewKicks :
                 /\ NewKicks[i].ts = p[1]
                 /\ NewKicks[i].id = before[p[1]][p[2]].id
                 /\ NewKicks[i].ev = before[p[1]][p[2]].ev
         /\ \A i \in DOMAIN NewKicks :
              /\ NewKicks[i].ts \in DOMAIN before
              /\ NewKicks[i].ts <= now
         /\ \A i, j \in DOMAIN NewKicks :
              i < j =>
                /\ NewKicks[i].ts <= NewKicks[j].ts
                /\ NewKicks[i].ts = NewKicks[j].ts =>
                     Position(before, NewKicks[i].ts, NewKicks[i].id)
                       < Position(before, NewKicks[j].ts, NewKicks[j].id)

\* C1 witness: one call has fired two keys in ascending order, both earlier
\* than its now, and has left a later occurrence pending
C1_Witness ==
    /\ IsKick
    /\ Len(NewKicks) >= 2
    /\ NewKicks[1].ts < NewKicks[2].ts
    /\ NewKicks[2].ts < lastOp.arg
    /\ DOMAIN schedule # {}

\* C2: kick_event(now) leaves exactly the entries whose key is > now, their
\* lists unchanged, and returns the smallest key left, or None; a returned
\* Some(t) has t > now
C2_KickLeavesLater ==
    IsKick =>
      LET now == lastOp.arg
          ret == lastOp.ret
          before == lastOp.pre.schedule
      IN /\ DOMAIN schedule = {k \in DOMAIN before : k > now}
         /\ \A k \in DOMAIN schedule : schedule[k] = before[k]
         /\ IF DOMAIN schedule = {} THEN ret = None
            ELSE /\ ret.tag = "Some"
                 /\ ret.ts \in DOMAIN schedule
                 /\ \A k \in DOMAIN schedule : ret.ts <= k
                 /\ ret.ts > now

\* C2 witness: a call that fired an occurrence has returned Some(t) with two
\* keys left
C2_Witness ==
    /\ IsKick
    /\ lastOp.ret.tag = "Some"
    /\ Cardinality(DOMAIN schedule) >= 2
    /\ NewKicks # <<>>

\* C3: every occurrence update_schedule inserts with timestamp t is fired
\* exactly once: no kick_event(now) with now < t fires it, the first
\* kick_event(now) with now >= t fires it, and none fires it again
C3_FiredExactlyOnce ==
    /\ \A i, j \in DOMAIN kicks : i # j => kicks[i].id # kicks[j].id
    /\ \A id \in 1 .. occs :
         LET fired == {i \in DOMAIN kicks : kicks[i].id = id}
             held == {p \in Pending(schedule) : schedule[p[1]][p[2]].id = id}
         IN /\ Cardinality(fired) + Cardinality(held) = 1
            /\ \A i \in fired : kicks[i].ts = hints[id].ts
            /\ \A p \in held : p[1] = hints[id].ts
    /\ IsKick =>
         LET now == lastOp.arg
             before == lastOp.pre.schedule
         IN /\ \A i \in DOMAIN NewKicks : NewKicks[i].ts <= now
            /\ \A p \in Pending(before) :
                 (p[1] <= now) <=>
                    \E i \in DOMAIN NewKicks :
                       NewKicks[i].id = before[p[1]][p[2]].id

\* C3 witness: an occurrence that was pending when an earlier kick_event call
\* fired another one has been fired by a later call
C3_Witness ==
    \E i, j \in DOMAIN kicks :
       /\ i < j
       /\ kicks[i].seen < kicks[j].seen
       /\ kicks[j].id <= kicks[i].seen
       /\ kicks[i].ts < kicks[j].ts

\* The reference days of the update_schedule calls so far, in call order
Increasing(days) == \A a, b \in DOMAIN days : a < b => days[a] < days[b]
NonDecreasing(days) == \A a, b \in DOMAIN days : a < b => days[a] <= days[b]

\* C4: occurrences pending under one timestamp are fired in the order their
\* events were registered with add_event, for every sequence of
\* update_schedule calls; stated here for the calls the library documents,
\* strictly increasing reference days
C4_RegistrationOrder ==
    (IsKick /\ Increasing(refs)) =>
      \A i, j \in DOMAIN NewKicks :
         (i < j /\ NewKicks[i].ts = NewKicks[j].ts)
            => NewKicks[i].ev <= NewKicks[j].ev

\* The last call is the second of two update_schedule calls in a row for one
\* reference day, and both returned
SameDayAgain ==
    /\ IsUpdate
    /\ status = "ok"
    /\ lastOp.pre.since >= 0
    /\ Len(refs) >= 2
    /\ refs[Len(refs)] = refs[Len(refs) - 1]

\* The hint calls of the first and of the second of these two calls
FirstCall == SubSeq(hints, lastOp.pre.since + 1, lastOp.pre.occs)
SecondCall == SubSeq(hints, lastOp.pre.occs + 1, occs)
\* The call is about an event whose timestamp takes no random draw
NoDraw(h) ==
    /\ events[h.ev].moment.kind # "Fuzzy"
    /\ events[h.ev].moment.variance <= 0

\* C5 as claimed: the second of two update_schedule calls for one reference
\* day leaves pending as the first left it, and no key holds two entries for
\* one registered event
C5_Idempotent ==
    SameDayAgain =>
      /\ DOMAIN schedule = DOMAIN lastOp.pre.schedule
      /\ \A k \in DOMAIN schedule :
           /\ Len(schedule[k]) = Len(lastOp.pre.schedule[k])
           /\ \A a, b \in DOMAIN schedule[k] :
                a # b => schedule[k][a].ev # schedule[k][b].ev

\* C5 amended: the second of two update_schedule calls for one reference day
\* repeats the first: every event whose timestamp takes no random draw gets
\* the same timestamp again and a second occurrence, appended under the key
\* that still holds the first
C5_SecondCallRepeats ==
    SameDayAgain =>
      LET F == SelectSeq(FirstCall, NoDraw)
          S == SelectSeq(SecondCall, NoDraw)
      IN /\ Len(F) = Len(S)
         /\ \A i \in DOMAIN S :
              /\ S[i].ts = F[i].ts
              /\ S[i].ev = F[i].ev
              /\ S[i].ts \in DOMAIN schedule
              /\ \E a, b \in DOMAIN schedule[S[i].ts] :
                    /\ a < b
                    /\ schedule[S[i].ts][a].id = F[i].id
                    /\ schedule[S[i].ts][b].id = S[i].id
                    /\ schedule[S[i].ts][a].ev = schedule[S[i].ts][b].ev

\* C5 witness: the second call has inserted an occurrence of an event that
\* takes no draw, and another event of the schedule was rejected by its filter
C5_Witness ==
    /\ SameDayAgain
    /\ SelectSeq(SecondCall, NoDraw) # <<>>
    /\ Len(SecondCall) < Len(events)

\* C6 as claimed: when the reference days and the nows of the calls so far
\* are non-decreasing, the timestamps of the kick calls so far are
\* non-decreasing
C6_Chronological ==
    (nows.ordered /\ NonDecreasing(refs)) =>
      \A i, j \in DOMAIN kicks : i < j => kicks[i].ts <= kicks[j].ts

\* C6 amended: when the reference days and the nows of the calls so far are
\* non-decreasing, an occurrence fires after an occurrence with a later
\* timestamp only if update_schedule inserted it after that one had fired
C6_ChronologicalAmongPending ==
    (nows.ordered /\ NonDecreasing(refs)) =>
      \A i, j \in DOMAIN kicks :
         (i < j /\ kicks[i].ts > kicks[j].ts) => kicks[j].id > kicks[i].seen

\* C6 witness: three occurrences have fired in calls with non-decreasing
\* reference days and nows, two in the order of their timestamps and one
\* after an occurrence with a later timestamp
C6_Witness ==
    /\ nows.ordered
    /\ NonDecreasing(refs)
    /\ \E i, j \in DOMAIN kicks : i < j /\ kicks[i].ts < kicks[j].ts
    /\ \E i, j \in DOMAIN kicks : i < j /\ kicks[i].ts > kicks[j].ts

\* C7: update_schedule calls hint exactly once, with the timestamp and the
\* event, for each occurrence it inserts, and never for an event whose filter
\* rejected the day; every kick call was preceded by the hint call of the same
\* occurrence, with the same timestamp and event
C7_HintPerOccurrence ==
    /\ Len(hints) = occs
    /\ \A id \in DOMAIN hints : hints[id].id = id
    /\ \A p \in Pending(schedule) :
         LET occurrence == schedule[p[1]][p[2]]
         IN /\ occurrence.id \in DOMAIN hints
            /\ hints[occurrence.id] = Call(p[1], occurrence)
    /\ \A i \in DOMAIN kicks :
         /\ kicks[i].id <= kicks[i].seen
         /\ kicks[i].id \in DOMAIN hints
         /\ hints[kicks[i].id].ts = kicks[i].ts
         /\ hints[kicks[i].id].ev = kicks[i].ev
         /\ events[hints[kicks[i].id].ev].action = events[kicks[i].ev].action
         /\ events[hints[kicks[i].id].ev].context = events[kicks[i].ev].context
    /\ (IsUpdate /\ status = "ok") =>
         /\ Len(NewHints) = occs - lastOp.pre.occs
         /\ \A i \in DOMAIN NewHints :
              /\ NewHints[i].id = lastOp.pre.occs + i
              /\ Filter_day_scheduled(events[NewHints[i].ev].moment.filter,
                                      NewHints[i].ts, localtime) = "Yes"
              /\ \E p \in Pending(schedule) :
                    /\ p[1] = NewHints[i].ts
                    /\ schedule[p[1]][p[2]].id = NewHints[i].id
         /\ \A e \in DOMAIN events :
              LET called == {i \in DOMAIN NewHints : NewHints[i].ev = e}
              IN /\ Cardinality(called) <= 1
                 /\ called = {} =>
                      \E r \in Draws(events[e], lastOp.arg, localtime) :
                         Event_create_timestamp(events[e], lastOp.arg,
                                                localtime, r) = None

\* C7 witness: a kick call has been made, and the update_schedule call after
\* it has called hint for one event and not for another, which its filter
\* rejected
C7_Witness ==
    /\ IsUpdate
    /\ status = "ok"
    /\ kicks # <<>>
    /\ NewHints # <<>>
    /\ Len(NewHints) < Len(events)

\* C8: with one transition at T from offset b to offset a and update_schedule
\* called for consecutive days, the timestamp of a Fixed LocalTime(o) event on
\* the day ref is ref + o - b when ref + o - b < T and ref + o - a otherwise,
\* and the timestamp of a closure event returning UtcTime(d) is ref + d
C8_LocalShiftsAtTransition ==
    (IsUpdate /\ status = "ok" /\ Len(zoneinfo.transitions) = 1) =>
      LET ref == lastOp.arg
          T == zoneinfo.transitions[1].at
          b == Seconds(zoneinfo.ut_offset)
          a == Seconds(zoneinfo.transitions[1].ut_offset)
      IN \A i \in DOMAIN NewHints :
           LET moment == events[NewHints[i].ev].moment
               t == NewHints[i].ts
               o == moment.m1.d
           IN /\ (moment.kind = "Fixed" /\ moment.m1.tag = "LocalTime") =>
                   t = IF ref + o - b < T THEN ref + o - b ELSE ref + o - a
              /\ (moment.kind = "ByClosure"
                    /\ call_func(moment, ref).tag = "UtcTime") =>
                   t = ref + call_func(moment, ref).d

\* The zone has the constant offset 0
ConstantZero == zoneinfo.ut_offset = 0 /\ zoneinfo.transitions = <<>>
\* The days scheduled so far, as indices from the first one, a Thursday
Scheduled == 0 .. (Len(refs) - 1)
\* The indices of the days on which the event at index e got an occurrence
DayIndices(e) ==
    {d \in Scheduled :
       \E i \in DOMAIN hints :
          hints[i].ev = e /\ hints[i].ts = Days(d) + events[e].moment.m1.d}
\* The instants of the last day scheduled and of three seconds around it
Instants ==
    LET ref == IF refs = <<>> THEN 0 ELSE refs[Len(refs)]
    IN (ref - Seconds(3)) .. (ref + Day + Seconds(3))

\* C9: in a zone with constant offset 0 and update_schedule called for up to 8
\* consecutive days from a Thursday on, a Fixed(Weekend, LocalTime m) event
\* gets occurrences exactly on the days 2 and 3 and a Fixed(MonToFri,
\* LocalTime m) event exactly on the days 0, 1, 4, 5, 6 and 7, one for each
\* day; and in every zone, for every instant and window, exactly one of
\* Weekend and MonToFri permits the instant and Always permits it
C9_WeekendAndWorkingDays ==
    /\ (ConstantZero /\ status = "ok") =>
         \A e \in DOMAIN events :
            LET moment == events[e].moment
                on == DayIndices(e)
                calls == {i \in DOMAIN hints : hints[i].ev = e}
            IN (moment.kind = "Fixed" /\ moment.m1.tag = "LocalTime") =>
                 /\ Cardinality(calls) = Cardinality(on)
                 /\ moment.filter = "Weekend" => on = {2, 3} \cap Scheduled
                 /\ moment.filter = "MonToFri" =>
                      on = {0, 1, 4, 5, 6, 7} \cap Scheduled
                 /\ moment.filter = "Always" => on = Scheduled
    /\ localtime.tag # "Unknown" =>
         \A t \in Instants :
            /\ Filter_day_scheduled("Always", t, localtime) = "Yes"
            /\ {Filter_day_scheduled("Weekend", t, localtime),
                Filter_day_scheduled("MonToFri", t, localtime)} = {"Yes", "No"}

\* C9 witness: in the zone with offset 0 the 8 days are scheduled for a weekend
\* event and a working day event, and all their occurrences have fired, 2 of
\* the one and 6 of the other
C9_Witness ==
    /\ ConstantZero
    /\ Len(refs) = ScheduledDays
    /\ DOMAIN schedule = {}
    /\ \E e, f \in DOMAIN events :
          /\ events[e].moment.filter = "Weekend"
          /\ events[f].moment.filter = "MonToFri"
          /\ Cardinality({i \in DOMAIN kicks : kicks[i].ev = e}) = 2
          /\ Cardinality({i \in DOMAIN kicks : kicks[i].ev = f}) = 6

\* C10: for a Fuzzy(Always, m1, m2) event every draw gives a timestamp t with
\* min(t1, t2) <= t < max(t1, t2) when t1 # t2 and t = t1 when t1 = t2, and
\* the draw does not fail; checked for the events, reference day and window
\* of every update_schedule call
C10_FuzzyWithinWindow ==
    (IsUpdate /\ status # "unwrap") =>
      \A e \in DOMAIN events :
         LET moment == events[e].moment
             ref == lastOp.arg
             t1 == Moment_create_timestamp(moment.m1, ref, localtime).ts
             t2 == Moment_create_timestamp(moment.m2, ref, localtime).ts
             lo == IF t1 <= t2 THEN t1 ELSE t2
             hi == IF t1 <= t2 THEN t2 ELSE t1
         IN (moment.kind = "Fuzzy" /\ moment.filter = "Always") =>
              /\ \A r \in Draws(events[e], ref, localtime) :
                   LET t == Event_create_timestamp(events[e], ref, localtime, r)
                   IN /\ t.tag = "Some"
                      /\ IF t1 = t2 THEN t.ts = t1
                         ELSE lo <= t.ts /\ t.ts < hi

\* The timestamp of the moment the closure of a ByClosure event returns
Base(moment, ref) ==
    Moment_create_timestamp(call_func(moment, ref), ref, localtime).ts
\* The results of Event::create_timestamp for the event at index e over all
\* the draws the generator can make, on the day and in the window of the last
\* update_schedule call
Results(e) ==
    {Event_create_timestamp(events[e], lastOp.arg, localtime, r) :
       r \in Draws(events[e], lastOp.arg, localtime)}
\* The last call is an update_schedule call that had a window
Resolved == IsUpdate /\ status # "unwrap"
\* The events with a closure
Closures == {e \in DOMAIN events : events[e].moment.kind = "ByClosure"}

\* C11 as claimed: for a ByClosure event with jitter > 0 every draw gives
\* base + delta with -jitter/2 <= delta < +jitter/2, and a draw gives
\* delta = -jitter/2; stated for the jitters of a second and more, with
\* which the draw succeeds
C11_JitterClosedBelow ==
    Resolved =>
      \A e \in Closures :
         LET j == events[e].moment.variance
             base == Base(events[e].moment, lastOp.arg)
         IN j >= Seconds(1) =>
              /\ \A x \in Results(e) :
                   /\ x.tag = "Some"
                   /\ 2 * (x.ts - base) >= -j
                   /\ 2 * (x.ts - base) < j
              /\ \E x \in Results(e) : 2 * (x.ts - base) = -j

\* C11 amended: for a ByClosure event with jitter > 0 and n its whole
\* seconds, the draw r is one of 0 .. n-1 and delta is n/2 - r seconds, so
\* -jitter/2 < delta <= +jitter/2: +jitter/2 is reached (by r = 0) exactly
\* when the jitter is an even number of whole seconds and -jitter/2 never;
\* with n = 0 the draw fails
C11_JitterClosedAbove ==
    Resolved =>
      \A e \in Closures :
         LET moment == events[e].moment
             j == moment.variance
             n == num_seconds(j)
             base == Base(moment, lastOp.arg)
             draws == Draws(events[e], lastOp.arg, localtime)
             result(r) == Event_create_timestamp(events[e], lastOp.arg,
                                                 localtime, r)
         IN j > 0 =>
              /\ n = 0 => Results(e) = {Panic("gen_range")}
              /\ n >= 1 =>
                   /\ draws = 0 .. (n - 1)
                   /\ \A r \in draws :
                        LET delta == Seconds((n \div 2) - r)
                        IN /\ result(r) = do_schedule(moment, base + delta,
                                                      localtime)
                           /\ -j < 2 * delta
                           /\ 2 * delta <= j
                           /\ 2 * delta = j <=>
                                (r = 0 /\ j = Seconds(n) /\ n % 2 = 0)
              /\ \A i \in DOMAIN NewHints :
                   NewHints[i].ev = e =>
                     /\ -j < 2 * (NewHints[i].ts - base)
                     /\ 2 * (NewHints[i].ts - base) <= j

\* C11 witness: update_schedule has given an event with a jitter of two
\* seconds the timestamp base + one second
C11_Witness ==
    /\ Resolved
    /\ status = "ok"
    /\ \E i \in DOMAIN NewHints :
          LET moment == events[NewHints[i].ev].moment
          IN /\ moment.kind = "ByClosure"
             /\ moment.variance = Seconds(2)
             /\ NewHints[i].ts = Base(moment, lastOp.arg) + Seconds(1)

\* C12: for a ByClosure event whose jitter is not greater than zero, delta is
\* 0: every result is the timestamp of the closure's moment, and so is the
\* timestamp hint is called with
C12_NoJitterNoDelta ==
    Resolved =>
      \A e \in Closures :
         LET moment == events[e].moment
             base == Base(moment, lastOp.arg)
         IN moment.variance <= 0 =>
              /\ Results(e) = {do_schedule(moment, base, localtime)}
              /\ \A i \in DOMAIN NewHints :
                   NewHints[i].ev = e => NewHints[i].ts = base

\* One Fixed(Always, LocalTime(o)) event is registered in a zone with the
\* constant offset 0 and update_schedule was called once
OneFixedLocal ==
    /\ ConstantZero
    /\ Len(events) = 1
    /\ events[1].moment.kind = "Fixed"
    /\ events[1].moment.filter = "Always"
    /\ events[1].moment.m1.tag = "LocalTime"
    /\ Len(refs) = 1
    /\ status = "ok"

\* C13: with one Fixed(Always, LocalTime(o)) event in a zone with constant
\* offset 0, after one update_schedule(ref) peek_event returns ref + o; one
\* kick_event at that instant calls kick once, with that timestamp, and
\* returns None, and peek_event then returns None
C13_OneFixedEvent ==
    OneFixedLocal =>
      LET t == refs[1] + events[1].moment.m1.d
      IN /\ kicks = <<>> =>
              /\ peek_event = Some(t)
              /\ Pending(schedule) = {<<t, 1>>}
              /\ IsPeek => lastOp.ret = Some(t)
         /\ (IsKick /\ lastOp.arg = t) =>
              /\ Len(kicks) = 1
              /\ kicks[1].ts = t
              /\ kicks[1].ev = 1
              /\ lastOp.ret = None
         /\ kicks # <<>> =>
              /\ Len(kicks) = 1
              /\ peek_event = None
              /\ IsPeek => lastOp.ret = None

\* C13 witness: the event has fired at midnight + o, with o > 0, and the
\* peek_event call after it has returned None
C13_Witness ==
    /\ OneFixedLocal
    /\ events[1].moment.m1.d > 0
    /\ IsPeek
    /\ lastOp.ret = None
    /\ Len(kicks) = 1
    /\ kicks[1].ts = refs[1] + events[1].moment.m1.d

\* The events are Fixed(Always) events at distinct local times of day in a
\* zone without transitions, and the days scheduled are consecutive
DistinctFixed ==
    /\ zoneinfo.transitions = <<>>
    /\ status = "ok"
    /\ \A e \in DOMAIN events :
         /\ events[e].moment.kind = "Fixed"
         /\ events[e].moment.filter = "Always"
         /\ events[e].moment.m1.tag = "LocalTime"
         /\ events[e].moment.m1.d < Day
    /\ \A e, f \in DOMAIN events :
         e # f => events[e].moment.m1.d # events[f].moment.m1.d
    /\ \A d \in DOMAIN refs : d > 1 => refs[d] = refs[d - 1] + Day
\* The event whose time of day is the rank-th of the times of day
Ranked(rank) ==
    CHOOSE e \in DOMAIN events :
       Cardinality({f \in DOMAIN events :
                      events[f].moment.m1.d < events[e].moment.m1.d}) = rank - 1
\* The i-th kick call of a drain in day-major order
DayMajor(i) ==
    LET k == Len(events)
        day == ((i - 1) \div k) + 1
        e == Ranked(((i - 1) % k) + 1)
    IN [ts |-> refs[day] + events[e].moment.m1.d - Seconds(zoneinfo.ut_offset),
        ev |-> e,
        context |-> events[e].context]

\* C14: with k Fixed(Always) events at distinct times of day in a zone with a
\* constant offset and update_schedule called for n consecutive days before
\* any kick_event, the kick calls are those of the day-major order, each at
\* its day + its time of day and with its context, and n * k when the
\* schedule is drained
C14_DayMajorDrain ==
    DistinctFixed =>
      LET k == Len(events)
          n == Len(refs)
      IN /\ Len(kicks) + Cardinality(Pending(schedule)) = n * k
         /\ \A i \in DOMAIN kicks :
              /\ kicks[i].ts = DayMajor(i).ts
              /\ kicks[i].ev = DayMajor(i).ev
              /\ events[kicks[i].ev].context = DayMajor(i).context
         /\ DOMAIN schedule = {} => Len(kicks) = n * k

\* C14 witness: two events, the later time of day registered first, are
\* scheduled for three days or more in the zone east of Greenwich and have all
\* fired
C14_Witness ==
    /\ DistinctFixed
    /\ zoneinfo.ut_offset # 0
    /\ Len(events) = 2
    /\ events[1].moment.m1.d > events[2].moment.m1.d
    /\ Len(refs) >= 3
    /\ DOMAIN schedule = {}
    /\ Len(kicks) = 2 * Len(refs)

\* C15: peek_event returns the smallest key of the schedule, None when it is
\* empty, and changes nothing: the events, the window and the schedule are as
\* before and no handler is called; called right after kick_event it returns
\* what kick_event returned
C15_PeekChangesNothing ==
    /\ IsPeek =>
         /\ IF DOMAIN schedule = {} THEN lastOp.ret = None
            ELSE /\ lastOp.ret.tag = "Some"
                 /\ lastOp.ret.ts \in DOMAIN schedule
                 /\ \A k \in DOMAIN schedule : lastOp.ret.ts <= k
         /\ events = lastOp.pre.events
         /\ localtime = lastOp.pre.localtime
         /\ schedule = lastOp.pre.schedule
         /\ Len(hints) = lastOp.pre.hints
         /\ Len(kicks) = lastOp.pre.kicks
         /\ occs = lastOp.pre.occs
         /\ status = "ok"
    /\ IsKick => peek_event = lastOp.ret

\* C15 witness: peek_event has returned the smaller of two keys, with an
\* occurrence fired before and the window known
C15_Witness ==
    /\ IsPeek
    /\ lastOp.ret.tag = "Some"
    /\ Cardinality(DOMAIN schedule) >= 2
    /\ kicks # <<>>
    /\ localtime.tag # "Unknown"

\* C16: an update_schedule call with a reference day earlier than the one of
\* a call before it aborts: it does not return, calls no hint and inserts no
\* occurrence
C16_EarlierDayAborts ==
    (IsUpdate /\ \E i \in DOMAIN refs : refs[i] > lastOp.arg) =>
      /\ status # "ok"
      /\ Len(hints) = lastOp.pre.hints
      /\ schedule = lastOp.pre.schedule

\* The last update_schedule call had to refresh the window and the zone had
\* no offset for its reference day
NoOffset ==
    /\ IsUpdate
    /\ \/ lastOp.pre.localtime.tag = "Unknown"
       \/ /\ lastOp.pre.localtime.tag = "ChangePending"
          /\ lastOp.pre.localtime.time <= lastOp.arg
    /\ get_actual_zoneinfo(zoneinfo, lastOp.arg).tag = "None"

\* C17: an update_schedule call that has to refresh the window when the zone
\* has no offset fails before any hint call and any insertion: the events,
\* the window and the schedule are as before, and no call follows
C17_NoOffsetIsFatal ==
    /\ NoOffset =>
         /\ status = "unwrap"
         /\ Len(hints) = lastOp.pre.hints
         /\ occs = lastOp.pre.occs
         /\ schedule = lastOp.pre.schedule
         /\ events = lastOp.pre.events
         /\ localtime = lastOp.pre.localtime
    /\ status = "unwrap" => NoOffset

\* C17 witness: the call has failed with an event registered
C17_Witness ==
    /\ NoOffset
    /\ status = "unwrap"
    /\ events # <<>>

\* The times of day of a moment: every tick of a day
TimesOfDay == 0 .. (Day - 1)

\* C19: Moment::create_timestamp gives, for the reference day and the window
\* of every update_schedule call and every time of day o: ref + o for
\* UtcTime(o); ref + o - z for LocalTime(o) under NoChangePending(z); and for
\* LocalTime(o) under ChangePending(T, b, a), ref + o - b when ref + o - b < T
\* and ref + o - a otherwise, also when ref + o - b = T; a Fixed event is
\* hinted with this timestamp
C19_MomentResolution ==
    Resolved =>
      LET ref == lastOp.arg
          b == Seconds(localtime.before)
          a == Seconds(localtime.after)
          T == localtime.time
          local(o) == IF localtime.tag = "NoChangePending" THEN ref + o - b
                      ELSE IF ref + o - b < T THEN ref + o - b
                      ELSE ref + o - a
      IN /\ localtime.tag \in {"NoChangePending", "ChangePending"}
         /\ \A o \in TimesOfDay :
              /\ Moment_create_timestamp(UtcTime(o), ref, localtime)
                   = Ok(ref + o)
              /\ Moment_create_timestamp(LocalTime(o), ref, localtime)
                   = Ok(local(o))
         /\ \A i \in DOMAIN NewHints :
              LET moment == events[NewHints[i].ev].moment
              IN moment.kind = "Fixed" =>
                   NewHints[i].ts = IF moment.m1.tag = "UtcTime"
                                    THEN ref + moment.m1.d
                                    ELSE local(moment.m1.d)

\* C19 witness: under ChangePending(T, b, a) a Fixed LocalTime(o) event with
\* ref + o - b = T has been given the timestamp ref + o - a
C19_Witness ==
    /\ Resolved
    /\ localtime.tag = "ChangePending"
    /\ \E i \in DOMAIN NewHints :
          LET moment == events[NewHints[i].ev].moment
              provisional == lastOp.arg + moment.m1.d - Seconds(localtime.before)
          IN /\ moment.kind = "Fixed"
             /\ moment.m1.tag = "LocalTime"
             /\ provisional = localtime.time
             /\ NewHints[i].ts
                  = lastOp.arg + moment.m1.d - Seconds(localtime.after)

\* The timestamp of LocalTime(o) on the day and in the window of the last
\* update_schedule call
LocalResult(o) ==
    Moment_create_timestamp(LocalTime(o), lastOp.arg, localtime).ts
\* The offset this timestamp was computed with is the one before, or the one
\* after, the transition of the window
ChoseBefore(o) ==
    LocalResult(o) = lastOp.arg + o - Seconds(localtime.before)
ChoseAfter(o) ==
    LocalResult(o) = lastOp.arg + o - Seconds(localtime.after)

\* C20 as claimed: under ChangePending(T, b, a) the timestamp of a LocalTime
\* moment is < T when it was computed with b and >= T when it was computed
\* with a
C20_ChosenOffsetInEffect ==
    (Resolved /\ localtime.tag = "ChangePending") =>
      \A o \in TimesOfDay :
         /\ ChoseBefore(o) \/ ChoseAfter(o)
         /\ ChoseBefore(o) => LocalResult(o) < localtime.time
         /\ ChoseAfter(o) => LocalResult(o) >= localtime.time

\* C20 amended: under ChangePending(T, b, a) the timestamp of a LocalTime
\* moment is < T when it was computed with b; when it was computed with a it
\* is >= T for a <= b, and for a > b it is >= T - (a - b), and < T exactly
\* for the local times the transition skips, T <= ref + o - b < T + (a - b)
C20_ChosenOffsetUnlessSkipped ==
    (Resolved /\ localtime.tag = "ChangePending") =>
      LET T == localtime.time
          b == Seconds(localtime.before)
          a == Seconds(localtime.after)
      IN \A o \in TimesOfDay :
           LET provisional == lastOp.arg + o - b
           IN /\ ChoseBefore(o) \/ ChoseAfter(o)
              /\ ChoseBefore(o) => LocalResult(o) < T
              /\ ChoseAfter(o) =>
                   /\ a <= b => LocalResult(o) >= T
                   /\ a > b => LocalResult(o) >= T - (a - b)
                   /\ LocalResult(o) < T <=>
                        (a > b /\ T <= provisional /\ provisional < T + (a - b))

\* C20 witness: in the spring-forward zone a Fixed LocalTime event has been
\* given a timestamp computed with the offset after the transition and
\* earlier than the transition
C20_Witness ==
    /\ Resolved
    /\ localtime.tag = "ChangePending"
    /\ localtime.after > localtime.before
    /\ \E i \in DOMAIN NewHints :
          LET moment == events[NewHints[i].ev].moment
          IN /\ moment.kind = "Fixed"
             /\ moment.m1.tag = "LocalTime"
             /\ ChoseAfter(moment.m1.d)
             /\ NewHints[i].ts = LocalResult(moment.m1.d)
             /\ NewHints[i].ts < localtime.time


\* An event whose timestamp takes no random value: a Fixed event, or a closure
\* event with jitter 0
NoRandomness(e) ==
    \/ e.moment.kind = "Fixed"
    \/ e.moment.kind = "ByClosure" /\ e.moment.variance = 0

\* The event e resolves to the same value on day ref whatever the generator
\* would return
SameForAllDraws(e, ref) ==
    LET lt == refresh(zoneinfo, localtime, ref)
    IN lt.tag # "unwrap" =>
         /\ Draws(e, ref, lt) = {0}
         /\ LET t == Event_create_timestamp(e, ref, lt, 0)
            IN \A r \in 1 .. 3 : Event_create_timestamp(e, ref, lt, r) = t

Stale == \/ lastOp.pre.localtime.tag = "Unknown"
         \/ /\ lastOp.pre.localtime.tag = "ChangePending"
            /\ lastOp.pre.localtime.time <= lastOp.arg

\* C21: update_schedule(ref) asks the zoneinfo and replaces the window exactly
\* when the window is Unknown, or ChangePending(T, ..) with T <= ref, and
\* otherwise leaves it as it is; a NoChangePending window is never replaced,
\* and no call makes the window Unknown again
C21_RefreshExactlyWhenStale ==
    /\ (IsUpdate /\ status # "unwrap") =>
         IF Stale
         THEN /\ localtime = new_change_state(zoneinfo, lastOp.arg)
              /\ localtime # lastOp.pre.localtime
         ELSE localtime = lastOp.pre.localtime
    /\ ~IsUpdate => localtime = lastOp.pre.localtime
    /\ lastOp.pre.localtime.tag = "NoChangePending" =>
         localtime = lastOp.pre.localtime
    /\ lastOp.pre.localtime.tag # "Unknown" => localtime.tag # "Unknown"

\* C21 witness: a call has replaced a ChangePending window whose transition
\* was at the reference day itself, after a call that reused the window
C21_Witness ==
    /\ IsUpdate
    /\ lastOp.pre.localtime.tag = "ChangePending"
    /\ lastOp.pre.localtime.time = lastOp.arg
    /\ localtime.tag = "ChangePending"
    /\ localtime.time > lastOp.arg
    /\ Len(refs) >= 3
    /\ hints # <<>>

\* C22: with a zoneinfo that reports only transitions after the instant it is
\* asked about, the window update_schedule(ref) computes the timestamps with
\* and returns with is NoChangePending, or ChangePending(T, ..) with T > ref
C22_WindowAheadOfReference ==
    (IsUpdate /\ status # "unwrap") =>
       \/ localtime.tag = "NoChangePending"
       \/ /\ localtime.tag = "ChangePending"
          /\ localtime.time > lastOp.arg

\* C22 witness: after reference days in ascending order the window went from
\* the last transition of the zone to NoChangePending, and events were resolved
C22_Witness ==
    /\ IsUpdate
    /\ NonDecreasing(refs)
    /\ lastOp.pre.localtime.tag = "ChangePending"
    /\ lastOp.pre.localtime.time <= lastOp.arg
    /\ localtime.tag = "NoChangePending"
    /\ Len(hints) > lastOp.pre.hints

\* C23: no sequence of add_event, update_schedule, kick_event and peek_event
\* calls resolves a local time or evaluates a weekday filter while the window
\* is Unknown: neither unreachable!() is executed, and whenever update_schedule
\* has computed a timestamp the window is resolved
C23_NeverUnreachable ==
    /\ status # "unreachable"
    /\ hints # <<>> => localtime.tag # "Unknown"
    /\ (IsUpdate /\ status = "ok") => localtime.tag # "Unknown"

\* C23 witness: the first update_schedule of a Schedule, called with the
\* window Unknown, has resolved a local time under a weekday filter
C23_Witness ==
    /\ IsUpdate
    /\ status = "ok"
    /\ lastOp.pre.localtime.tag = "Unknown"
    /\ \E h \in DOMAIN NewHints :
         /\ events[NewHints[h].ev].moment.filter = "MonToFri"
         /\ events[NewHints[h].ev].moment.m1.tag = "LocalTime"

\* The offset of the window lt in effect at the instant t
OffsetAt(lt, t) ==
    IF lt.tag = "ChangePending" /\ t >= lt.time THEN lt.after ELSE lt.before
\* The local weekday of the instant t in the window lt
LocalWday(lt, t) == tm_wday(t + Seconds(OffsetAt(lt, t)))
\* Whether a filter lets a weekday through
Accepts(filter, wday) ==
    CASE filter = "Weekend" -> wday \in {0, 6}
      [] filter = "MonToFri" -> wday \in 1 .. 5
      [] OTHER -> TRUE
\* The instants the event at index e can get in the last update_schedule call
\* before its filter is asked, over all draws
FinalInstants(e) ==
    {Event_create_timestamp([events[e] EXCEPT !.moment.filter = "Always"],
                            lastOp.arg, localtime, r).ts :
       r \in Draws(events[e], lastOp.arg, localtime)}
\* The timestamps the last update_schedule call gave the event at index e
HintedAt(e) ==
    {NewHints[i].ts : i \in {k \in DOMAIN NewHints : NewHints[k].ev = e}}

\* C24: the filter of an event of any kind is asked about the final instant,
\* after the draw of a Fuzzy event and the jitter of a closure event: every
\* occurrence a Weekend event gets has a timestamp that is a Saturday or a
\* Sunday in local time, by the offset of the window in effect at it, every
\* occurrence of a MonToFri event a local Monday to Friday, and an event gets
\* no occurrence only when such an instant is on a weekday its filter refuses,
\* whatever the weekday of the reference day
C24_FilterOnFinalInstant ==
    (Resolved /\ status = "ok") =>
       \A e \in DOMAIN events :
          LET filter == events[e].moment.filter
              finals == FinalInstants(e)
          IN /\ HintedAt(e) \subseteq finals
             /\ \A t \in HintedAt(e) : Accepts(filter, LocalWday(localtime, t))
             /\ HintedAt(e) = {} =>
                  \E t \in finals : ~Accepts(filter, LocalWday(localtime, t))
             /\ Cardinality(finals) = 1 =>
                  (HintedAt(e) # {} <=>
                     \A t \in finals : Accepts(filter, LocalWday(localtime, t)))

\* C24 witness: on a Friday a Weekend event got an occurrence, its instant
\* being on the local Saturday
C24_Witness ==
    /\ Resolved
    /\ status = "ok"
    /\ tm_wday(lastOp.arg) = 5
    /\ \E e \in DOMAIN events :
         /\ events[e].moment.filter = "Weekend"
         /\ \E t \in HintedAt(e) :
              /\ LocalWday(localtime, t) = 6
              /\ tm_wday(t) = 5

\* The candidate instants a filter is asked about: the day before the
\* reference day of the last update_schedule call, that day and the day after
Candidates == (lastOp.arg - Day) .. (lastOp.arg + 2 * Day - 1)
WeekdayFilters == {"MonToFri", "Weekend"}

\* C25: MonToFri and Weekend take the weekday of candidate + z, z being the
\* offset of a NoChangePending window, and under ChangePending(T, b, a) b for
\* a candidate < T and a for any other; a window whose two offsets are equal
\* classifies every candidate as the NoChangePending window of that offset
C25_WeekdayOfShiftedCandidate ==
    Resolved =>
      \A filter \in WeekdayFilters : \A t \in Candidates :
         LET z == CASE localtime.tag = "NoChangePending" -> localtime.before
                    [] localtime.tag = "ChangePending" /\ t < localtime.time ->
                         localtime.before
                    [] OTHER -> localtime.after
             weekend == tm_wday(t + Seconds(z)) \in {0, 6}
         IN /\ Filter_day_scheduled(filter, t, localtime)
                 = IF (filter = "Weekend") = weekend THEN "Yes" ELSE "No"
            /\ Filter_day_scheduled(filter, t,
                                    ChangePending(localtime.time, z, z))
                 = Filter_day_scheduled(filter, t, NoChangePending(z))

\* C25 witness: update_schedule has asked the filter of an event in a
\* ChangePending window in which the instant of the transition is a weekend
\* by one of the two offsets and a working day by the other, and the filter
\* goes by the offset after the transition
C25_Witness ==
    /\ Resolved
    /\ localtime.tag = "ChangePending"
    /\ \E e \in DOMAIN events :
         /\ events[e].moment.filter \in WeekdayFilters
         /\ FinalInstants(e) \subseteq Candidates
    /\ localtime.time \in Candidates
    /\ Filter_filter_days("Weekend", localtime.time, localtime.before)
    /\ ~Filter_filter_days("Weekend", localtime.time, localtime.after)
    /\ Filter_day_scheduled("Weekend", localtime.time, localtime) = "No"

\* A Fuzzy event with its two moments exchanged
Swapped(event) ==
    [event EXCEPT !.moment.m1 = event.moment.m2, !.moment.m2 = event.moment.m1]
\* What an event can come to on the day and in the window of the last
\* update_schedule call: each instant it can get, before the filter is asked,
\* with the result of Event::create_timestamp for it
Outcomes(event) ==
    {<<Event_create_timestamp([event EXCEPT !.moment.filter = "Always"],
                              lastOp.arg, localtime, r),
       Event_create_timestamp(event, lastOp.arg, localtime, r)>> :
       r \in Draws(event, lastOp.arg, localtime)}
FuzzyEvents == {e \in DOMAIN events : events[e].moment.kind = "Fuzzy"}

\* C26: the order of the two moments of a Fuzzy event does not matter: on
\* every reference day and in every window Fuzzy(f, m1, m2) and
\* Fuzzy(f, m2, m1) can get the same instants, and the filter gives the same
\* answer for each of them
C26_FuzzyOrderInsignificant ==
    Resolved =>
      \A e \in FuzzyEvents :
         /\ Outcomes(Swapped(events[e])) = Outcomes(events[e])
         /\ \A t \in HintedAt(e) :
              \E o \in Outcomes(Swapped(events[e])) : o[2] = Some(t)

\* C26 witness: update_schedule has given an occurrence to a Fuzzy event whose
\* first moment is later than its second and whose window has several
\* instants, one of which its filter refuses
C26_Witness ==
    /\ Resolved
    /\ status = "ok"
    /\ \E e \in FuzzyEvents :
         LET moment == events[e].moment
         IN /\ Moment_create_timestamp(moment.m1, lastOp.arg, localtime).ts
                > Moment_create_timestamp(moment.m2, lastOp.arg, localtime).ts
            /\ HintedAt(e) # {}
            /\ Cardinality(Outcomes(events[e])) >= 2
            /\ \E o \in Outcomes(events[e]) : o[2] = None

\* The list old is the beginning of the list new
Prefix(old, new) ==
    /\ Len(old) <= Len(new)
    /\ SubSeq(new, 1, Len(old)) = old

\* C27: add_event appends one entry to events and leaves the schedule and the
\* window as they are, the new event having no occurrence yet;
\* update_schedule leaves events as it is and every entry of the schedule in
\* place, new occurrences coming after those a key has; kick_event inserts
\* nothing, leaves the entries it does not remove, events and the window as
\* they are; events never gets shorter
C27_OperationsFrame ==
    /\ IsAdd =>
         /\ Len(events) = Len(lastOp.pre.events) + 1
         /\ Prefix(lastOp.pre.events, events)
         /\ schedule = lastOp.pre.schedule
         /\ localtime = lastOp.pre.localtime
         /\ Len(hints) = lastOp.pre.hints
         /\ \A p \in Pending(schedule) : schedule[p[1]][p[2]].ev # Len(events)
    /\ IsUpdate =>
         /\ events = lastOp.pre.events
         /\ \A k \in DOMAIN lastOp.pre.schedule :
              /\ k \in DOMAIN schedule
              /\ Prefix(lastOp.pre.schedule[k], schedule[k])
         /\ Len(kicks) = lastOp.pre.kicks
    /\ IsKick =>
         /\ events = lastOp.pre.events
         /\ localtime = lastOp.pre.localtime
         /\ DOMAIN schedule \subseteq DOMAIN lastOp.pre.schedule
         /\ \A k \in DOMAIN schedule : schedule[k] = lastOp.pre.schedule[k]
         /\ Len(hints) = lastOp.pre.hints
    /\ Prefix(lastOp.pre.events, events)

\* C27 witness: update_schedule has added an occurrence to a key that had one
\* and has made a new key, for two events, after a kick_event call
C27_Witness ==
    /\ IsUpdate
    /\ Len(events) = 2
    /\ kicks # <<>>
    /\ \E k \in DOMAIN lastOp.pre.schedule :
         Len(schedule[k]) > Len(lastOp.pre.schedule[k])
    /\ DOMAIN schedule # DOMAIN lastOp.pre.schedule

\* The keys the schedule had when the drain loop began: in the weekly runs all
\* update_schedule calls come before the first kick_event call
KeysAtStart == {hints[i].ts : i \in DOMAIN hints}
\* The keys the loop has fired so far
KeysFired == {kicks[i].ts : i \in DOMAIN kicks}

\* C28: the loop now := peek_event(); r := kick_event(now); now := t while r
\* is Some(t), with no update_schedule call in between, on a schedule of
\* n >= 1 keys: every kick_event call fires the occurrences of exactly one
\* key, the smallest, and removes that key, so that the calls made and the
\* keys left add up to n; the keys are fired in ascending order; the call
\* returns the now of the next round, and None, which ends the loop, exactly
\* when the schedule is empty, that is after n calls
C28_DrainLoop ==
    /\ IsKick =>
         LET before == lastOp.pre.schedule
             now == lastOp.arg
         IN /\ first_key(before) = Some(now)
            /\ DOMAIN schedule = DOMAIN before \ {now}
            /\ Len(NewKicks) = Len(before[now])
            /\ Len(NewKicks) >= 1
            /\ \A i \in DOMAIN NewKicks :
                 /\ NewKicks[i].ts = now
                 /\ NewKicks[i].id = before[now][i].id
            /\ lastOp.ret = first_key(schedule)
            /\ \A k \in DOMAIN schedule : k > now
            /\ (lastOp.ret = None) <=> (KeysFired = KeysAtStart)
    /\ kicks # <<>> =>
         /\ KeysFired \cap DOMAIN schedule = {}
         /\ KeysFired \cup DOMAIN schedule = KeysAtStart
         /\ \A i, j \in DOMAIN kicks : i < j => kicks[i].ts <= kicks[j].ts
         /\ \A k \in KeysFired : \A l \in DOMAIN schedule : k < l

\* C28 witness: the loop has ended with None after firing four keys, one of
\* them with two occurrences
C28_Witness ==
    /\ IsKick
    /\ lastOp.ret = None
    /\ schedule = EmptySchedule
    /\ Cardinality(KeysFired) >= 4
    /\ Len(kicks) > Cardinality(KeysFired)

\* C29: occurrences are conserved, also under one timestamp: between the
\* calls the number of hint calls made so far is the number of kick calls made
\* so far plus the number of occurrences in the schedule, over all its keys
C29_OccurrencesConserved ==
    Len(hints) = Len(kicks) + Cardinality(Pending(schedule))

\* C29 witness: occurrences have been fired, and two that got the same
\* timestamp are pending under one key next to another key
C29_Witness ==
    /\ kicks # <<>>
    /\ \E k \in DOMAIN schedule : Len(schedule[k]) >= 2
    /\ Cardinality(DOMAIN schedule) >= 2

\* The instants new_from_timespec is looked at for: every tick from a day
\* before the epoch to the end of day 3
Timespecs == (0 - Day) .. (Days(4) - 1)

\* C30: Moment::new_from_timespec(t) is UtcTime(o) with 0 <= o < one day, o
\* being the time t has passed the UTC midnight of its own day; resolved
\* against the reference midnight ref it gives ref + o, which is t exactly
\* when ref <= t < ref + one day; and that is the timestamp update_schedule
\* gives a Fixed event of this moment
C30_TimespecFoldedIntoDay ==
    Resolved =>
      LET ref == lastOp.arg
      IN /\ ref % Day = 0
         /\ \A t \in Timespecs :
              LET moment == Moment_new_from_timespec(t)
                  result == Moment_create_timestamp(moment, ref, localtime)
              IN /\ moment.tag = "UtcTime"
                 /\ 0 <= moment.d /\ moment.d < Day
                 /\ (t - moment.d) % Day = 0
                 /\ moment.d = t % Day
                 /\ result = Ok(ref + (t % Day))
                 /\ (result.ts = t) <=> (ref <= t /\ t < ref + Day)
         /\ \A e \in DOMAIN events : \A t \in Sunrises :
              (status = "ok"
                 /\ events[e].moment = Fixed("Always", Moment_new_from_timespec(t)))
                => HintedAt(e) = {ref + (t % Day)}

\* C30 witness: update_schedule has folded an instant of a later day, and an
\* instant before the epoch, into the reference day
C30_Witness ==
    /\ Resolved
    /\ status = "ok"
    /\ \E e \in DOMAIN events : \E t \in Sunrises :
         /\ events[e].moment = Fixed("Always", Moment_new_from_timespec(t))
         /\ t >= lastOp.arg + Day
         /\ HintedAt(e) = {lastOp.arg + Seconds(1) + 1}
         /\ Moment_new_from_timespec(0 - 1) = UtcTime(Day - 1)

\* C31: in every reachable state every key of the schedule has a list that is
\* not empty, and every occurrence in it is of an event that events holds; so
\* a timestamp peek_event or kick_event returns is a key with at least one
\* occurrence to fire
C31_KeysHaveOccurrences ==
    /\ \A k \in DOMAIN schedule :
         /\ Len(schedule[k]) >= 1
         /\ \A j \in DOMAIN schedule[k] : schedule[k][j].ev \in DOMAIN events
    /\ ((IsPeek \/ IsKick) /\ lastOp.ret.tag = "Some") =>
         /\ lastOp.ret.ts \in DOMAIN schedule
         /\ schedule[lastOp.ret.ts] # <<>>
         /\ events[schedule[lastOp.ret.ts][1].ev] \in Catalog

\* C31 witness: a kick_event call that fired a key has returned a timestamp
\* under which the occurrences of two events wait
C31_Witness ==
    /\ IsKick
    /\ NewKicks # <<>>
    /\ lastOp.ret.tag = "Some"
    /\ Len(schedule[lastOp.ret.ts]) >= 2
    /\ schedule[lastOp.ret.ts][1].ev # schedule[lastOp.ret.ts][2].ev
====
